---- MODULE Spec2Model ----
(***************************************************************************)
(* Model of src/updater/main.py: the manifest updater of                   *)
(* bitnami-postgresql-wal2json.  One run of main() parses its arguments,   *)
(* loads the manifest file if there is one, fetches the upstream tag list, *)
(* builds a candidate manifest, reconciles it with the loaded manifest and *)
(* writes the result back.  Runs follow one another on the same file.      *)
(*                                                                         *)
(* Python strings are sequences of one-character strings, so that          *)
(* startswith, the tag regex, the f-strings and sorted() are computed and  *)
(* not assumed.  Timestamps are naturals: datetimes are only compared for  *)
(* equality, and the registry's fixed-width ISO-8601 last_updated strings  *)
(* order as the instants they denote.  The manifest file holds the JSON of *)
(* the manifest's fields, which load_manifest reads back field by field.   *)
(* save_summary writes a report to a file of its own that no run reads; it *)
(* has no part in the model.                                               *)
(***************************************************************************)
EXTENDS Naturals, Sequences, FiniteSets, TLC

VARIABLES
    disk,              \* the manifest file: ABSENT, INVALID or a Manifest
    pc,                \* position of the current run of main()
    args,              \* parse_args() result plus the resolved update_time
    manifest,          \* main's `manifest` as loaded (None when no file)
    new_manifest,      \* update_manifest's `new_manifest` (the candidate)
    updated_manifest,  \* main's `updated_manifest`
    branches,          \* which arms of the loop at lines 157-168 were taken
    failure,           \* the exception that ended the run, or None
    disk_at_start,     \* the manifest file when the run started, until it is written
    unmatched,         \* requested majors no fetched tag of this run starts with
    call,              \* input of a single function application
    ret                \* its result

vars == <<disk, pc, args, manifest, new_manifest, updated_manifest,
          branches, failure, disk_at_start, unmatched, call, ret>>

-----------------------------------------------------------------------------
(* Bounds of the model. *)

MaxMajors == 2      \* longest list of requested major versions
MaxTags == 2        \* longest upstream tag list of a run
MaxTime == 2        \* timestamps range over 1..MaxTime

-----------------------------------------------------------------------------
(* Strings. *)

\* ord(): the code points of the characters the model's strings use
Ord ==
    "-" :> 45 @@ "." :> 46 @@ "/" :> 47 @@ "0" :> 48 @@ "1" :> 49 @@ "2" :> 50
    @@ "3" :> 51 @@ "4" :> 52 @@ "5" :> 53 @@ "6" :> 54 @@ "7" :> 55
    @@ "8" :> 56 @@ "9" :> 57 @@ ":" :> 58 @@ "_" :> 95 @@ "a" :> 97
    @@ "b" :> 98 @@ "c" :> 99 @@ "d" :> 100 @@ "e" :> 101 @@ "g" :> 103
    @@ "i" :> 105 @@ "j" :> 106 @@ "l" :> 108 @@ "m" :> 109 @@ "n" :> 110
    @@ "o" :> 111 @@ "r" :> 114 @@ "s" :> 115 @@ "t" :> 116 @@ "w" :> 119

\* a < b on Python strings: by code point, a proper prefix first
RECURSIVE str_lt(_, _)
str_lt(a, b) ==
    IF b = <<>> THEN FALSE
    ELSE IF a = <<>> THEN TRUE
    ELSE IF Ord[Head(a)] < Ord[Head(b)] THEN TRUE
    ELSE IF Ord[Head(a)] > Ord[Head(b)] THEN FALSE
    ELSE str_lt(Tail(a), Tail(b))

\* s[lo-1:hi], the slice of a Python string: clipped to the string
slice(s, lo, hi) ==
    LET end == IF hi < Len(s) THEN hi ELSE Len(s)
    IN  IF lo > end THEN <<>> ELSE SubSeq(s, lo, end)

startswith(s, prefix) == slice(s, 1, Len(prefix)) = prefix

\* index of the first "-" of s, 0 when there is none
find_dash(s) ==
    LET dashes == {i \in 1..Len(s) : s[i] = "-"}
    IN  IF dashes = {} THEN 0
        ELSE CHOOSE i \in dashes : \A j \in dashes : i <= j

Front(s) == SubSeq(s, 1, Len(s) - 1)
Last(s) == s[Len(s)]

None == [none |-> TRUE]

IsError(x) == "error" \in DOMAIN x

Error(name) == [error |-> name]

-----------------------------------------------------------------------------
(* Literals of the source. *)

COLON == <<":">>
DOT == <<".">>
DASH_DEBIAN_DASH == <<"-", "d", "e", "b", "i", "a", "n", "-">>
LATEST == <<"l", "a", "t", "e", "s", "t">>

WAL2JSON_VERSION == <<"2", ".", "5">>
WAL2JSON_TAG == <<"w", "a", "l", "2", "j", "s", "o", "n", "_", "2", "_", "5">>

-----------------------------------------------------------------------------
(* Records (lines 25-74). *)

Wal2JsonRecord(last_updated, version, upstream_tag) ==
    [last_updated |-> last_updated, version |-> version,
     upstream_tag |-> upstream_tag]

PostgresqlRecord(last_updated, version, major_version, upstream_tag, tags) ==
    [last_updated |-> last_updated, version |-> version,
     major_version |-> major_version, upstream_tag |-> upstream_tag,
     tags |-> tags]

Manifest(wal2json, postgresql) ==
    [wal2json |-> wal2json, postgresql |-> postgresql]

-----------------------------------------------------------------------------
(* PostgresqlRecord.parse_tag: re.match of                                  *)
(* (?P<postgresql_version>[^-]+)-debian-(?P<debian_version>[^-]+)-.*        *)
(* Both groups exclude "-", so each ends at the first "-" after its start.   *)
(* A tag that does not match makes match None and match.groupdict() raise.  *)
(* The result is the groupdict.                                             *)

parse_tag(tag) ==
    LET i == find_dash(tag)
        rest == slice(tag, i + Len(DASH_DEBIAN_DASH), Len(tag))
        j == find_dash(rest)
    IN  IF /\ i >= 2
           /\ slice(tag, i, i + Len(DASH_DEBIAN_DASH) - 1) = DASH_DEBIAN_DASH
           /\ j >= 2
        THEN [postgresql_version |-> slice(tag, 1, i - 1),
              debian_version |-> slice(rest, 1, j - 1)]
        ELSE Error("AttributeError")

\* from_version with the fourth alias before the third
from_version_swapped(update_time, image_name, major_version, upstream_tag, latest) ==
    LET parsed == parse_tag(upstream_tag)
    IN  IF IsError(parsed) THEN parsed
        ELSE PostgresqlRecord(update_time, parsed.postgresql_version, major_version,
                 upstream_tag,
                 << image_name \o COLON \o upstream_tag,
                    image_name \o COLON \o major_version \o DASH_DEBIAN_DASH
                        \o parsed.debian_version,
                    image_name \o COLON \o major_version,
                    image_name \o COLON \o parsed.postgresql_version >>
                 \o (IF latest THEN <<image_name \o COLON \o LATEST>> ELSE <<>>))

from_version(update_time, image_name, major_version, upstream_tag, latest) ==
    LET parsed == parse_tag(upstream_tag)
    IN  IF IsError(parsed) THEN parsed
        ELSE PostgresqlRecord(update_time, parsed.postgresql_version, major_version,
                 upstream_tag,
                 << image_name \o COLON \o upstream_tag,
                    image_name \o COLON \o major_version \o DASH_DEBIAN_DASH
                        \o parsed.debian_version,
                    image_name \o COLON \o parsed.postgresql_version,
                    image_name \o COLON \o major_version >>
                 \o (IF latest THEN <<image_name \o COLON \o LATEST>> ELSE <<>>))

get_wal2json_record(update_time) ==
    Wal2JsonRecord(update_time, WAL2JSON_VERSION, WAL2JSON_TAG)

-----------------------------------------------------------------------------
(* sorted(): Python's sort is stable, so an element goes after the elements *)
(* already placed that are not greater than it.                             *)

\* update_manifest without its line 135: the list as given
sorted_left_out(seq) == seq

\* sorted(seq) of a list of strings
RECURSIVE sorted(_)
sorted(seq) ==
    IF seq = <<>> THEN <<>>
    ELSE LET rest == sorted(Front(seq))
             x == Last(seq)
             k == Cardinality({i \in 1..Len(rest) : ~str_lt(x, rest[i])})
         IN  SubSeq(rest, 1, k) \o <<x>> \o SubSeq(rest, k + 1, Len(rest))

\* sorted(seq, key=lambda t: t["last_updated"])
RECURSIVE sorted_by_last_updated(_)
sorted_by_last_updated(seq) ==
    IF seq = <<>> THEN <<>>
    ELSE LET rest == sorted_by_last_updated(Front(seq))
             x == Last(seq)
             k == Cardinality({i \in 1..Len(rest) :
                                   rest[i].last_updated <= x.last_updated})
         IN  SubSeq(rest, 1, k) \o <<x>> \o SubSeq(rest, k + 1, Len(rest))

-----------------------------------------------------------------------------
(* get_postgresql_records, lines 93-106.  `tags` is the "results" list of   *)
(* the response, `majors` the list update_manifest has sorted.  The result  *)
(* is the exception raised, or the list returned under `records`.           *)

version_tags(tags, major_version) ==
    LET matches(t) == startswith(t.name, major_version \o DOT)
    IN  SelectSeq(tags, matches)

\* the selection with the oldest tag taken: version_tags_sorted[0]
version_tag_oldest(tags, major_version) ==
    LET version_tags_sorted == sorted_by_last_updated(version_tags(tags, major_version))
    IN  IF version_tags_sorted = <<>> THEN Error("IndexError")
        ELSE Head(version_tags_sorted)

\* lines 94-96: version_tags_sorted[-1] raises IndexError on an empty list
version_tag_latest(tags, major_version) ==
    LET version_tags_sorted == sorted_by_last_updated(version_tags(tags, major_version))
    IN  IF version_tags_sorted = <<>> THEN Error("IndexError")
        ELSE Last(version_tags_sorted)

\* one iteration of the loop: the record of majors[i], or the exception
record_of(update_time, image_name, majors, tags, i) ==
    LET selected == version_tag_latest(tags, majors[i])
    IN  IF IsError(selected) THEN selected
        ELSE from_version(update_time, image_name, majors[i], selected.name,
                          i = Len(majors))

\* the loop from iteration i on, with a major that has no upstream tag
\* skipped instead of raising
RECURSIVE records_loop_skipping(_, _, _, _, _, _)
records_loop_skipping(update_time, image_name, majors, tags, i, records) ==
    IF i > Len(majors) THEN [records |-> records]
    ELSE LET record == record_of(update_time, image_name, majors, tags, i)
         IN  IF record = Error("IndexError")
             THEN records_loop_skipping(update_time, image_name, majors, tags,
                                        i + 1, records)
             ELSE IF IsError(record) THEN record
             ELSE records_loop_skipping(update_time, image_name, majors, tags,
                                        i + 1, Append(records, record))

\* the loop from iteration i on: the exception raised, or the list returned
RECURSIVE records_loop(_, _, _, _, _, _)
records_loop(update_time, image_name, majors, tags, i, records) ==
    IF i > Len(majors) THEN [records |-> records]
    ELSE LET record == record_of(update_time, image_name, majors, tags, i)
         IN  IF IsError(record) THEN record
             ELSE records_loop(update_time, image_name, majors, tags,
                               i + 1, Append(records, record))

get_postgresql_records_skipping(update_time, image_name, majors, tags) ==
    records_loop_skipping(update_time, image_name, majors, tags, 1, <<>>)

get_postgresql_records(update_time, image_name, majors, tags) ==
    records_loop(update_time, image_name, majors, tags, 1, <<>>)

\* generate_manifest, lines 109-126.  `response` is response.json(), or the
\* exception requests.get raised.
generate_manifest(update_time, image_name, majors, response) ==
    IF IsError(response) THEN response
    ELSE LET postgresql_records ==
                 get_postgresql_records(update_time, image_name, majors,
                                        response.results)
         IN  IF IsError(postgresql_records) THEN postgresql_records
             ELSE Manifest(get_wal2json_record(update_time),
                           postgresql_records.records)

-----------------------------------------------------------------------------
(* update_manifest, lines 143-172. *)

\* {r.major_version: r for r in records}.get(major_version): the last record
\* of that major wins, None when there is none
dict_get(records, major_version) ==
    LET hits == {i \in 1..Len(records) : records[i].major_version = major_version}
    IN  IF hits = {} THEN None
        ELSE records[CHOOSE i \in hits : \A j \in hits : j <= i]

\* the loop body with the tag comparison left out: the candidate always wins
reconcile_always_new(old_postgresql_record, new_postgresql_record) ==
    IF new_postgresql_record # None
    THEN [arm |-> "changed", record |-> new_postgresql_record]
    ELSE IF old_postgresql_record # None
    THEN [arm |-> "kept_missing", record |-> old_postgresql_record]
    ELSE [arm |-> "skip", record |-> None]

\* the loop body without the arm of lines 159-164: a tracked major is kept
reconcile_keep_old(old_postgresql_record, new_postgresql_record) ==
    IF old_postgresql_record = None /\ new_postgresql_record # None
    THEN [arm |-> "new", record |-> new_postgresql_record]
    ELSE IF old_postgresql_record # None
    THEN [arm |-> "kept_same", record |-> old_postgresql_record]
    ELSE [arm |-> "skip", record |-> None]

\* the loop body, lines 154-168: the arm taken and the record appended
reconcile(old_postgresql_record, new_postgresql_record) ==
    IF old_postgresql_record = None /\ new_postgresql_record # None
    THEN [arm |-> "new", record |-> new_postgresql_record]
    ELSE IF /\ old_postgresql_record # None
            /\ new_postgresql_record # None
            /\ new_postgresql_record.upstream_tag # old_postgresql_record.upstream_tag
    THEN [arm |-> "changed", record |-> new_postgresql_record]
    ELSE IF old_postgresql_record # None
    THEN [arm |-> IF new_postgresql_record = None
                  THEN "kept_missing" ELSE "kept_same",
          record |-> old_postgresql_record]
    ELSE [arm |-> "skip", record |-> None]

\* lines 149-168: one decision per element of the sorted list
decisions(old_manifest, candidate, majors) ==
    [i \in 1..Len(majors) |->
        reconcile(dict_get(old_manifest.postgresql, majors[i]),
                  dict_get(candidate.postgresql, majors[i]))]

\* lines 143-172: the manifest update_manifest returns
reconciled(old_manifest, candidate, majors) ==
    IF old_manifest = None THEN candidate
    ELSE LET appended == SelectSeq(decisions(old_manifest, candidate, majors),
                                   LAMBDA d : d.arm # "skip")
         IN  Manifest(IF old_manifest.wal2json.upstream_tag
                             # candidate.wal2json.upstream_tag
                      THEN candidate.wal2json
                      ELSE old_manifest.wal2json,
                      [k \in 1..Len(appended) |-> appended[k].record])

arms_taken(old_manifest, candidate, majors) ==
    IF old_manifest = None THEN {}
    ELSE {decisions(old_manifest, candidate, majors)[i].arm : i \in 1..Len(majors)}

-----------------------------------------------------------------------------
(* The inputs of a run. *)

ABSENT == [file |-> "absent"]      \* args.manifest.is_file() is False
INVALID == [file |-> "invalid"]    \* a file pydantic's parse_file rejects

ACME_IMG == <<"a", "c", "m", "e", "/", "i", "m", "g">>

M15 == <<"1", "5">>
M9 == <<"9">>

\* as strings "15" sorts before "9"
MajorVersions == {M15, M9}

\* <version>-debian-<debian_version>-<suffix>
tag_name(version, debian_version, suffix) ==
    version \o DASH_DEBIAN_DASH \o debian_version \o <<"-">> \o suffix

T_15_3 == tag_name(<<"1", "5", ".", "3">>, <<"1", "2">>, <<"r", "4">>)
T_15_4 == tag_name(<<"1", "5", ".", "4">>, <<"1", "2">>, <<"r", "1">>)
T_9_6 == tag_name(<<"9", ".", "6">>, <<"9">>, <<"r", "2">>)
T_15_5_BAD == <<"1", "5", ".", "5", "-", "r", "0">>   \* no -debian- part

Times == 1..MaxTime

\* the registry's entries: {"name": ..., "last_updated": ...}
UpstreamTag(name, last_updated) == [name |-> name, last_updated |-> last_updated]

\* what the registry has to list, newest first; 15.3 was pushed again after
\* 15.4
UpstreamTags == << UpstreamTag(T_15_5_BAD, 4), UpstreamTag(T_15_3, 3),
                   UpstreamTag(T_15_4, 2), UpstreamTag(T_9_6, 1) >>

\* the entries of `listing` at the positions in `keep`, in their order
RECURSIVE sublist(_, _)
sublist(listing, keep) ==
    IF listing = <<>> THEN <<>>
    ELSE sublist(Front(listing), keep)
             \o (IF Len(listing) \in keep THEN <<Last(listing)>> ELSE <<>>)

\* the "results" a run may get: at most n of the registry's entries
TagLists(n) ==
    {sublist(UpstreamTags, keep) :
        keep \in {k \in SUBSET (1..Len(UpstreamTags)) : Cardinality(k) <= n}}

Responses == {[results |-> l] : l \in TagLists(MaxTags)}
                 \cup {Error("ConnectionError")}

MajorLists == UNION {[1..k -> MajorVersions] : k \in 1..MaxMajors}

Range(seq) == {seq[i] : i \in 1..Len(seq)}

-----------------------------------------------------------------------------
(* main(), lines 230-256, one action per step.  A run that has ended, with  *)
(* the file written or with an exception, is a process that has exited: of  *)
(* its locals only the exception it died of remains to be seen.             *)

Init ==
    /\ disk \in {ABSENT, INVALID}
    /\ pc = "main"
    /\ args = None
    /\ manifest = None
    /\ new_manifest = None
    /\ updated_manifest = None
    /\ branches = {}
    /\ failure = None
    /\ disk_at_start = disk
    /\ unmatched = {}
    /\ call = None
    /\ ret = None

\* lines 231-237 of a new process
ParseArgs ==
    /\ pc \in {"main", "saved", "failed"}
    /\ \E majors \in MajorLists, t \in Times :
           args' = [image_name |-> ACME_IMG, update_time |-> t,
                    postgresql_major_versions |-> majors]
    /\ pc' = "parsed"
    /\ failure' = None
    /\ unmatched' = {}
    /\ disk_at_start' = disk
    /\ UNCHANGED <<disk, manifest, new_manifest, updated_manifest, branches,
                   call, ret>>

\* load_manifest opening the file for writing: the file is emptied
LoadManifest_truncating ==
    /\ pc = "parsed"
    /\ IF disk = INVALID
       THEN /\ pc' = "failed"
            /\ failure' = Error("ValidationError")
            /\ args' = None
            /\ manifest' = None
       ELSE /\ pc' = "loaded"
            /\ manifest' = IF disk = ABSENT THEN None ELSE disk
            /\ UNCHANGED <<args, failure>>
    /\ disk' = ABSENT
    /\ UNCHANGED <<new_manifest, updated_manifest, branches,
                   disk_at_start, unmatched, call, ret>>

\* lines 239-240: load_manifest raises on a file that does not validate
LoadManifest ==
    /\ pc = "parsed"
    /\ IF disk = INVALID
       THEN /\ pc' = "failed"
            /\ failure' = Error("ValidationError")
            /\ args' = None
            /\ manifest' = None
       ELSE /\ pc' = "loaded"
            /\ manifest' = IF disk = ABSENT THEN None ELSE disk
            /\ UNCHANGED <<args, failure>>
    /\ UNCHANGED <<disk, new_manifest, updated_manifest, branches,
                   disk_at_start, unmatched, call, ret>>

\* update_manifest, lines 135-141: sort the majors, fetch, build the candidate
GenerateManifest ==
    /\ pc = "loaded"
    /\ \E majors \in {sorted(args.postgresql_major_versions)},
          response \in Responses :
        LET candidate == generate_manifest(args.update_time, args.image_name,
                                           majors, response)
        IN  /\ unmatched' =
                   IF IsError(response) THEN {}
                   ELSE {m \in Range(args.postgresql_major_versions) :
                            \A k \in 1..Len(response.results) :
                                ~startswith(response.results[k].name, m \o DOT)}
            /\ IF IsError(candidate)
               THEN /\ pc' = "failed"
                    /\ failure' = candidate
                    /\ args' = None
                    /\ manifest' = None
                    /\ new_manifest' = None
               ELSE /\ pc' = "generated"
                    /\ new_manifest' = candidate
                    /\ UNCHANGED <<args, manifest, failure>>
    /\ UNCHANGED <<disk, updated_manifest, branches, disk_at_start, call, ret>>

\* update_manifest, lines 143-172
Reconcile ==
    /\ pc = "generated"
    /\ LET majors == sorted(args.postgresql_major_versions)
       IN  /\ updated_manifest' = reconciled(manifest, new_manifest, majors)
           /\ branches' = arms_taken(manifest, new_manifest, majors)
    /\ pc' = "reconciled"
    /\ UNCHANGED <<disk, args, manifest, new_manifest, failure, disk_at_start,
                   unmatched, call, ret>>

\* line 249: save_manifest, lines 179-181, and the end of main
SaveManifest ==
    /\ pc = "reconciled"
    /\ disk' = updated_manifest
    /\ pc' = "saved"
    /\ args' = None
    /\ manifest' = None
    /\ new_manifest' = None
    /\ updated_manifest' = None
    /\ branches' = {}
    /\ disk_at_start' = updated_manifest   \* the run can no longer fail
    /\ UNCHANGED <<failure, unmatched, call, ret>>

Next ==
    \/ ParseArgs
    \/ LoadManifest
    \/ GenerateManifest
    \/ Reconcile
    \/ SaveManifest

Spec == Init /\ [][Next]_vars

-----------------------------------------------------------------------------
(* PostgresqlRecord.from_version applied once to each input. *)

DEFAULT_IMAGE_NAME ==
    <<"b", "e", "t", "a", "b", "o", "o", "n", "/", "b", "i", "t", "n", "a",
      "m", "i", "-", "p", "o", "s", "t", "g", "r", "e", "s", "q", "l", "-",
      "w", "a", "l", "2", "j", "s", "o", "n">>

ImageNames == {DEFAULT_IMAGE_NAME, ACME_IMG}
Versions == {<<"1", "5", ".", "3">>, <<"1", "5">>, <<"9", ".", "6", ".", "2", "4">>}
DebianVersions == {<<"1", "2">>, <<"9">>}
Suffixes == {<<"r", "4">>, <<"r", "4", "-", "a">>, <<>>}

BuildCalls ==
    {[update_time |-> 1, image_name |-> image, major_version |-> major,
      upstream_tag |-> tag_name(v, d, suffix), latest |-> latest,
      version |-> v, debian_version |-> d] :
        image \in ImageNames, major \in MajorVersions, v \in Versions,
        d \in DebianVersions, suffix \in Suffixes, latest \in BOOLEAN}

InitBuild ==
    /\ call \in BuildCalls
    /\ ret = None
    /\ pc = "call"
    /\ disk = ABSENT
    /\ args = None
    /\ manifest = None
    /\ new_manifest = None
    /\ updated_manifest = None
    /\ branches = {}
    /\ failure = None
    /\ disk_at_start = ABSENT
    /\ unmatched = {}

FromVersion ==
    /\ pc = "call"
    /\ ret' = from_version(call.update_time, call.image_name,
                           call.major_version, call.upstream_tag, call.latest)
    /\ pc' = "return"
    /\ UNCHANGED <<disk, args, manifest, new_manifest, updated_manifest,
                   branches, failure, disk_at_start, unmatched, call>>

NextBuild == FromVersion

SpecBuild == InitBuild /\ [][NextBuild]_vars

-----------------------------------------------------------------------------
(* The selection of lines 94-96 applied once to each tag list and major.    *)

MaxListed == 3      \* longest tag list given to the selection

M1 == <<"1">>
T_15_10 == tag_name(<<"1", "5", ".", "1", "0">>, <<"1", "2">>, <<"r", "0">>)
T_150_1 == tag_name(<<"1", "5", "0", ".", "1">>, <<"1", "2">>, <<"r", "0">>)
T_1_5 == tag_name(<<"1", ".", "5">>, <<"1", "2">>, <<"r", "0">>)

ListedTags == [name : {T_15_3, T_15_10, T_150_1, T_1_5}, last_updated : {1, 2}]

ListedTagLists ==
    UNION {{l \in [1..k -> ListedTags] :
               \A i, j \in 1..k : i # j => l[i].name # l[j].name} :
           k \in 0..MaxListed}

InitSelect ==
    /\ call \in [tags : ListedTagLists, major_version : {M15, M1}]
    /\ ret = None
    /\ pc = "call"
    /\ disk = ABSENT
    /\ args = None
    /\ manifest = None
    /\ new_manifest = None
    /\ updated_manifest = None
    /\ branches = {}
    /\ failure = None
    /\ disk_at_start = ABSENT
    /\ unmatched = {}

SelectVersionTag ==
    /\ pc = "call"
    /\ ret' = version_tag_latest(call.tags, call.major_version)
    /\ pc' = "return"
    /\ UNCHANGED <<disk, args, manifest, new_manifest, updated_manifest,
                   branches, failure, disk_at_start, unmatched, call>>

NextSelect == SelectVersionTag

SpecSelect == InitSelect /\ [][NextSelect]_vars

-----------------------------------------------------------------------------
(* Properties.  In a state with pc = "reconciled", `manifest` is the        *)
(* manifest the run loaded, `new_manifest` the candidate and                *)
(* `updated_manifest` what update_manifest returned.                        *)

IsManifest(file) == "postgresql" \in DOMAIN file

Reconciled == pc = "reconciled" /\ manifest # None

Majors(records) == {records[i].major_version : i \in 1..Len(records)}

Requested == Range(args.postgresql_major_versions)

HasLatest(record) ==
    \E k \in 1..Len(record.tags) : record.tags[k] = ACME_IMG \o <<":">> \o LATEST

\* name begins with major and a dot, character by character
NameIsOfMajor(name, major) ==
    /\ Len(name) > Len(major)
    /\ \A i \in 1..Len(major) : name[i] = major[i]
    /\ name[Len(major) + 1] = "."

\* C1 as stated: for the extension record and for every engine record whose
\* major is in both the loaded and the reconciled manifest, last_updated
\* differs between the two if and only if upstream_tag differs.
C1_LastUpdatedDiffersIffTagDiffers ==
    Reconciled =>
        /\ (updated_manifest.wal2json.last_updated # manifest.wal2json.last_updated)
               <=> (updated_manifest.wal2json.upstream_tag
                        # manifest.wal2json.upstream_tag)
        /\ \A i \in 1..Len(updated_manifest.postgresql),
              j \in 1..Len(manifest.postgresql) :
               LET new == updated_manifest.postgresql[i]
                   old == manifest.postgresql[j]
               IN  new.major_version = old.major_version =>
                       ((new.last_updated # old.last_updated)
                            <=> (new.upstream_tag # old.upstream_tag))

\* C1 amended: for the same records, an unchanged upstream_tag leaves
\* last_updated unchanged, and a changed upstream_tag sets last_updated to
\* the timestamp of the run, which may be the value it already had.
C1_LastUpdatedFollowsTag ==
    Reconciled =>
        /\ IF updated_manifest.wal2json.upstream_tag = manifest.wal2json.upstream_tag
           THEN updated_manifest.wal2json.last_updated
                    = manifest.wal2json.last_updated
           ELSE updated_manifest.wal2json.last_updated = args.update_time
        /\ \A i \in 1..Len(updated_manifest.postgresql),
              j \in 1..Len(manifest.postgresql) :
               LET new == updated_manifest.postgresql[i]
                   old == manifest.postgresql[j]
               IN  new.major_version = old.major_version =>
                       IF new.upstream_tag = old.upstream_tag
                       THEN new.last_updated = old.last_updated
                       ELSE new.last_updated = args.update_time

\* a run given another timestamp that keeps one major and advances another
C1_Witness ==
    /\ Reconciled
    /\ \E i \in 1..Len(updated_manifest.postgresql),
          j \in 1..Len(manifest.postgresql) :
           /\ updated_manifest.postgresql[i].major_version
                  = manifest.postgresql[j].major_version
           /\ updated_manifest.postgresql[i].upstream_tag
                  = manifest.postgresql[j].upstream_tag
           /\ manifest.postgresql[j].last_updated # args.update_time
    /\ \E i \in 1..Len(updated_manifest.postgresql),
          j \in 1..Len(manifest.postgresql) :
           /\ updated_manifest.postgresql[i].major_version
                  = manifest.postgresql[j].major_version
           /\ updated_manifest.postgresql[i].upstream_tag
                  # manifest.postgresql[j].upstream_tag
           /\ manifest.postgresql[j].last_updated # args.update_time

\* C2: no two engine records of a manifest that update_manifest returned, or
\* that main wrote to the file, have the same major_version.
C2_MajorVersionsUnique ==
    /\ pc = "reconciled" =>
           \A i, j \in 1..Len(updated_manifest.postgresql) :
               i # j => updated_manifest.postgresql[i].major_version
                            # updated_manifest.postgresql[j].major_version
    /\ IsManifest(disk) =>
           \A i, j \in 1..Len(disk.postgresql) :
               i # j => disk.postgresql[i].major_version
                            # disk.postgresql[j].major_version

\* the greatest of the requested majors, as strings
GreatestRequested ==
    CHOOSE m \in Requested : \A n \in Requested : ~str_lt(m, n)

\* C3: in the manifest a run produces, an engine record with the :latest
\* alias is a record of the greatest requested major, and that major has a
\* record with the alias.
C3_LatestOnlyOnGreatestRequested ==
    pc = "reconciled" =>
        /\ \A i \in 1..Len(updated_manifest.postgresql) :
               HasLatest(updated_manifest.postgresql[i]) =>
                   updated_manifest.postgresql[i].major_version = GreatestRequested
        /\ \E i \in 1..Len(updated_manifest.postgresql) :
               /\ updated_manifest.postgresql[i].major_version = GreatestRequested
               /\ HasLatest(updated_manifest.postgresql[i])

\* C4: reconciled with a loaded manifest, the engine list holds records of
\* requested majors only, in ascending order of major_version, and none of a
\* major the loaded manifest had and the run did not request.
C4_RequestedMajorsAscending ==
    Reconciled =>
        /\ Majors(updated_manifest.postgresql) \subseteq Requested
        /\ \A i, j \in 1..Len(updated_manifest.postgresql) :
               i < j => ~str_lt(updated_manifest.postgresql[j].major_version,
                                updated_manifest.postgresql[i].major_version)
        /\ \A m \in Majors(manifest.postgresql) \ Requested :
               m \notin Majors(updated_manifest.postgresql)

\* a tracked major that is no longer requested has gone from the list
C4_Witness ==
    /\ Reconciled
    /\ Majors(manifest.postgresql) \ Requested # {}
    /\ Majors(updated_manifest.postgresql) = Requested

\* the previous manifest, as the file held it when the run started
Tracked(m) ==
    /\ IsManifest(disk_at_start)
    /\ m \in Majors(disk_at_start.postgresql)

\* C5 as stated: a run in which a requested major has no record in the
\* previous manifest and no upstream tag does not fail, and its reconciled
\* manifest has no record of that major.
C5_UnmatchedUntrackedRunCompletes ==
    (\E m \in unmatched : ~Tracked(m)) =>
        /\ pc # "failed"
        /\ pc = "reconciled" =>
               \A m \in unmatched : m \notin Majors(updated_manifest.postgresql)

\* C5 amended: a run in which some requested major has no upstream tag,
\* tracked before or not, fails in get_postgresql_records: it is never
\* reconciled and the manifest file stays as it was.
C5_UnmatchedRunFails ==
    unmatched # {} =>
        /\ pc = "failed"
        /\ failure \in {Error("IndexError"), Error("AttributeError")}
        /\ disk = disk_at_start

\* a manifest is on file, and the run dies on a major it never tracked
C5_Witness ==
    /\ pc = "failed"
    /\ failure = Error("IndexError")
    /\ IsManifest(disk)
    /\ \E m \in unmatched : ~Tracked(m)

\* C6: a run that has failed (fetch, tag pattern, no tag for a major, or a
\* manifest that does not load) has not written: the manifest file is what
\* it was when the run started.
C6_FailedRunLeavesFile ==
    pc = "failed" =>
        /\ failure \in {Error("ConnectionError"), Error("AttributeError"),
                        Error("IndexError"), Error("ValidationError")}
        /\ disk = disk_at_start

\* a run that dies on a malformed tag with a manifest on file
C6_Witness ==
    /\ pc = "failed"
    /\ failure = Error("AttributeError")
    /\ IsManifest(disk)
    /\ disk.postgresql # <<>>

\* C7: when the tag selected for a requested major differs from the
\* upstream_tag of the loaded record of that major, the reconciled record of
\* the major is the candidate's: last_updated is the run's timestamp, and
\* upstream_tag, version and tags are those built from the selected tag.
C7_ChangedTagTakesCandidate ==
    Reconciled =>
        \A c \in Range(new_manifest.postgresql), old \in Range(manifest.postgresql) :
            (/\ c.major_version = old.major_version
             /\ c.upstream_tag # old.upstream_tag) =>
                /\ c.major_version \in Majors(updated_manifest.postgresql)
                /\ \A r \in Range(updated_manifest.postgresql) :
                       r.major_version = c.major_version =>
                           /\ r.last_updated = args.update_time
                           /\ r.upstream_tag = c.upstream_tag
                           /\ r.version = c.version
                           /\ r \in Range(new_manifest.postgresql)

\* a tracked major whose selected tag has changed, next to one that has not
C7_Witness ==
    /\ Reconciled
    /\ {"changed", "kept_same"} \subseteq branches
    /\ \E r \in Range(updated_manifest.postgresql),
          old \in Range(manifest.postgresql) :
           /\ r.major_version = old.major_version
           /\ r.upstream_tag # old.upstream_tag
           /\ old.last_updated # args.update_time

\* C8: when some tag's name starts with "<major>.", the tag selected is one
\* of those, with last_updated at least that of each of them; a tag of
\* another major, as 150.1 or 1.5 for 15, is never selected.
C8_SelectsLatestUpdatedOfMajor ==
    pc = "return" =>
        LET filtered == {k \in 1..Len(call.tags) :
                            NameIsOfMajor(call.tags[k].name, call.major_version)}
        IN  IF filtered = {} THEN ret = Error("IndexError")
            ELSE /\ \E k \in filtered : ret = call.tags[k]
                 /\ \A k \in filtered :
                        call.tags[k].last_updated <= ret.last_updated
                 /\ call.major_version = M15 => ret.name \notin {T_150_1, T_1_5}

\* three tags: the one selected for 15 is the later 15.10, which sorts before
\* 15.3 as a string, and 150.1, later still, is passed over
C8_Witness ==
    /\ pc = "return"
    /\ call.major_version = M15
    /\ Range(call.tags) = {[name |-> T_15_3, last_updated |-> 1],
                           [name |-> T_15_10, last_updated |-> 2],
                           [name |-> T_150_1, last_updated |-> 2]}
    /\ ret.name = T_15_10

\* C9: the tags of a record built from image I, major M and a tag T of
\* version V and debian version D are I:T, I:M-debian-D, I:V, I:M in that
\* order, followed by I:latest exactly when the record is the latest one.
C9_TagsInOrder ==
    pc = "return" =>
        LET I == call.image_name \o <<":">>
            four == << I \o call.upstream_tag,
                       I \o call.major_version
                         \o <<"-", "d", "e", "b", "i", "a", "n", "-">>
                         \o call.debian_version,
                       I \o call.version,
                       I \o call.major_version >>
        IN  /\ ~IsError(ret)
            /\ ret.tags = IF call.latest
                          THEN four \o << I \o <<"l", "a", "t", "e", "s", "t">> >>
                          ELSE four

\* a latest record of five tags whose suffix has a dash of its own
C9_Witness ==
    /\ pc = "return"
    /\ call.latest
    /\ Len(ret.tags) = 5
    /\ call.upstream_tag = tag_name(<<"1", "5", ".", "3">>, <<"1", "2">>,
                                    <<"r", "4", "-", "a">>)

\* C10: the candidate has a record for every requested major, so the loop of
\* lines 153-168 never keeps a record for want of a candidate and never
\* skips, and the reconciled list has one entry per requested element.
C10_CandidateCoversRequested ==
    /\ pc \in {"generated", "reconciled"} =>
           /\ Requested \subseteq Majors(new_manifest.postgresql)
           /\ unmatched = {}
    /\ pc = "reconciled" =>
           /\ branches \cap {"kept_missing", "skip"} = {}
           /\ Len(updated_manifest.postgresql)
                  = Len(args.postgresql_major_versions)

\* a loop of two iterations over a loaded manifest
C10_Witness ==
    /\ Reconciled
    /\ Len(args.postgresql_major_versions) = 2
    /\ Cardinality(Requested) = 2
    /\ branches # {}

====
